---- MODULE Spec2Model ----
(***************************************************************************)
(* The ReAct agent loop of squad_goals/agent.py: Agent.__init__,           *)
(* Agent.run, Agent.decide_next_action and Agent._parse.                   *)
(*                                                                         *)
(* A text is a sequence of one-character strings, so that the regular      *)
(* expression of _parse, str.strip, str.join, re.sub and json.loads are    *)
(* computed character by character.  "^G" stands for the character 0x07,   *)
(* "BQ" for the backquote, "SUR" for the lone surrogate U+D800, which a     *)
(* text may hold and the encoder of sys.stdout refuses.  Of the verbose    *)
(* flag the model keeps whether each print call returns or raises, not the *)
(* text that is written.                                                   *)
(***************************************************************************)
EXTENDS Integers, Sequences, FiniteSets, TLC

(* ------------------------------ bounds --------------------------------- *)

\* largest max_loops an Agent is constructed with
MaxLoops == 2

\* number of run calls made on the Agent
MaxRuns == 2

\* number of prompts the language model answers, over all runs
MaxCalls == 3

\* number of control characters put into a tool input
MaxInsert == 2

\* longest tool list a caller constructs an Agent with
MaxTools == 3

(* --------------------------- text constants ---------------------------- *)

OBSERVATION_TOKEN ==
    <<"O", "b", "s", "e", "r", "v", "a", "t", "i", "o", "n", ":">>

\* the literal "Action: " that opens the pattern of _parse
ActionLit ==
    <<"A", "c", "t", "i", "o", "n", ":", " ">>

\* the literal "Action Input:" of the pattern of _parse
ActionInputLit ==
    <<"A", "c", "t", "i", "o", "n", " ", "I", "n", "p", "u", "t", ":">>

\* the name run compares the parsed tool with before it returns
FinalAnswerName ==
    <<"R", "e", "t", "u", "r", "n", " ", "F", "i", "n", "a", "l", " ", "A", "n", "s", "w", "e",
      "r", " ", "T", "o", "o", "l">>

NextThoughtLit ==
    <<"\n", "N", "e", "x", "t", " ", "T", "h", "o", "u", "g", "h", "t", ":">>

ErrorFromToolLit ==
    <<"E", "r", "r", "o", "r", " ", "f", "r", "o", "m", " ", "t", "o", "o", "l", ":", " ">>

ToolErrorLit ==
    <<"T", "O", "O", "L", " ", "E", "R", "R", "O", "R", ".", " ", "M", "A", "K", "E", " ", "S",
      "U", "R", "E", " ", "T", "O", " ", "V", "E", "R", "B", "T", "A", "I", "M", " ", "S", "T",
      "A", "T", "E", " ", "A", " ", "T", "O", "O", "L", " ", "N", "A", "M", "E", " ", "F", "R",
      "O", "M", " ", "T", "H", "E", " ", "L", "I", "S", "T", ":", " ">>

\* str(e) of the TypeError Python raises for f(**x) when x is no mapping;
\* the name of x's type follows
NotAMappingLit ==
    <<"a", "r", "g", "u", "m", "e", "n", "t", " ", "a", "f", "t", "e", "r", " ", "*", "*", " ",
      "m", "u", "s", "t", " ", "b", "e", " ", "a", " ", "m", "a", "p", "p", "i", "n", "g", ",",
      " ", "n", "o", "t", " ">>

UnknownToolLit ==
    <<"U", "n", "k", "n", "o", "w", "n", " ", "t", "o", "o", "l", ":", " ">>

ErrorParsingJsonLit ==
    <<"E", "r", "r", "o", "r", " ", "p", "a", "r", "s", "i", "n", "g", " ", "J", "S", "O", "N",
      ":", " ">>

NotParsableLit ==
    <<"O", "u", "t", "p", "u", "t", " ", "o", "f", " ", "L", "L", "M", " ", "i", "s", " ", "n",
      "o", "t", " ", "p", "a", "r", "s", "a", "b", "l", "e", " ", "f", "o", "r", " ", "n", "e",
      "x", "t", " ", "t", "o", "o", "l", " ", "u", "s", "e", ":", " ", "BQ">>

\* str(e) of the AttributeError Python raises for None.group(1)
NoneGroupLit ==
    <<"'", "N", "o", "n", "e", "T", "y", "p", "e", "'", " ", "o", "b", "j", "e", "c", "t", " ",
      "h", "a", "s", " ", "n", "o", " ", "a", "t", "t", "r", "i", "b", "u", "t", "e", " ", "'",
      "g", "r", "o", "u", "p", "'">>

(* ---------------------------- text helpers ----------------------------- *)

\* the characters str.strip() removes and \s matches
Whitespace == {" ", "\n", "\t"}

\* the characters of the class 0x00-0x1F, 0x7F
ControlChars == {"\n", "\t", "^G"}

Digits == <<"0", "1", "2", "3", "4", "5", "6", "7", "8", "9">>

\* the first position >= i of s whose character is outside set (Len(s)+1 if none)
SkipWhile(s, i, set) ==
    CHOOSE j \in i..(Len(s) + 1) :
        /\ (j = Len(s) + 1 \/ s[j] \notin set)
        /\ \A k \in i..(j - 1) : s[k] \in set

\* the last position <= i of s whose character is outside set (0 if none)
SkipBack(s, i, set) ==
    CHOOSE j \in 0..i :
        /\ (j = 0 \/ s[j] \notin set)
        /\ \A k \in (j + 1)..i : s[k] \in set

\* str.strip(chars)
StripChars(s, set) ==
    LET a == SkipWhile(s, 1, set)
        b == SkipBack(s, Len(s), set)
    IN  IF a > b THEN <<>> ELSE SubSeq(s, a, b)

\* str.strip()
Strip(s) == StripChars(s, Whitespace)

\* pat occurs in s at position i
StartsAt(s, i, pat) ==
    /\ i >= 1
    /\ i + Len(pat) - 1 <= Len(s)
    /\ SubSeq(s, i, i + Len(pat) - 1) = pat

RECURSIVE Join(_, _)
\* sep.join(parts)
Join(parts, sep) ==
    IF parts = <<>> THEN <<>>
    ELSE IF Len(parts) = 1 THEN parts[1]
    ELSE parts[1] \o sep \o Join(Tail(parts), sep)

\* a substitution that takes out the newline and the tab only
SanitizeWhitespace(s) == SelectSeq(s, LAMBDA c : c \notin {"\n", "\t"})

\* re.sub of the control characters by the empty string
Sanitize(s) == SelectSeq(s, LAMBDA c : c \notin ControlChars)

(* ------------------- the pattern of _parse (re.DOTALL) ----------------- *)
(* "Action: ", an optional "[", group 1 (lazy, any characters), an         *)
(* optional "]", any number of newlines, "Action Input:", any whitespace,  *)
(* group 2 (greedy, any characters).                                       *)

\* where "Action Input:" starts when the part after group 1 is tried at q:
\* the literal begins with "A", so the optional "]" and the newlines are
\* consumed greedily with no alternative
InputLitAt(s, q) ==
    SkipWhile(s, IF q <= Len(s) /\ s[q] = "]" THEN q + 1 ELSE q, {"\n"})

\* the part after group 1, up to "Action Input:", matches at q
TailMatches(s, q) == StartsAt(s, InputLitAt(s, q), ActionInputLit)

\* where group 1 starts for a match that starts at i: after "Action: " and
\* an optional "["
Group1Start(s, i) ==
    LET p == i + Len(ActionLit)
    IN  IF p <= Len(s) /\ s[p] = "[" THEN p + 1 ELSE p

\* the pattern matches with its first character at i
MatchesAt(s, i) ==
    /\ StartsAt(s, i, ActionLit)
    /\ \E q \in Group1Start(s, i)..(Len(s) + 1) : TailMatches(s, q)

\* re.search(regex, s, re.DOTALL): the leftmost match, group 1 lazy,
\* group 2 the rest of the text after the whitespace
Search(s) ==
    LET starts == {i \in 1..Len(s) : MatchesAt(s, i)}
    IN  IF starts = {} THEN [matched |-> FALSE, group1 |-> <<>>, group2 |-> <<>>]
        ELSE LET i  == CHOOSE x \in starts : \A y \in starts : x <= y
                 p  == Group1Start(s, i)
                 q  == CHOOSE x \in p..(Len(s) + 1) :
                          /\ TailMatches(s, x)
                          /\ \A y \in p..(x - 1) : ~TailMatches(s, y)
                 g2 == SkipWhile(s, InputLitAt(s, q) + Len(ActionInputLit), Whitespace)
             IN  [matched |-> TRUE,
                  group1  |-> SubSeq(s, p, q - 1),
                  group2  |-> SubSeq(s, g2, Len(s))]

(* ------------------------------ json.loads ----------------------------- *)
(* The decoder for objects, strings without escapes and integers; other    *)
(* JSON (arrays, literals, fractions, exponents, escapes) is outside the   *)
(* texts of this model.  A value is a record [t, ...].                     *)

JsonWs == {" ", "\t", "\n"}

JFail == [ok |-> FALSE, val |-> [t |-> "none"], pos |-> 0]

DigitValue(c) == (CHOOSE k \in 1..10 : Digits[k] = c) - 1

IsDigit(c) == \E k \in 1..10 : Digits[k] = c

RECURSIVE DigitsValue(_)
DigitsValue(ds) ==
    IF ds = <<>> THEN 0
    ELSE 10 * DigitsValue(SubSeq(ds, 1, Len(ds) - 1)) + DigitValue(ds[Len(ds)])

\* a string whose opening quote is at i: up to the next quote, no control
\* character (strict mode) in between
JString(s, i) ==
    LET closing == {j \in (i + 1)..Len(s) : s[j] = "\""}
    IN  IF closing = {} THEN JFail
        ELSE LET j == CHOOSE x \in closing : \A y \in closing : x <= y
             IN  IF \E k \in (i + 1)..(j - 1) : s[k] \in ControlChars THEN JFail
                 ELSE [ok |-> TRUE,
                       val |-> [t |-> "str", s |-> SubSeq(s, i + 1, j - 1)],
                       pos |-> j + 1]

\* an integer starting at i: an optional "-", then "0" or a run of digits
\* that starts with a non-zero digit
JNumber(s, i) ==
    LET neg == s[i] = "-"
        d   == IF neg THEN i + 1 ELSE i
    IN  IF d > Len(s) \/ ~IsDigit(s[d]) THEN JFail
        ELSE LET e == IF s[d] = "0" THEN d + 1
                      ELSE SkipWhile(s, d, {Digits[k] : k \in 1..10})
                 n == DigitsValue(SubSeq(s, d, e - 1))
             IN  [ok |-> TRUE,
                  val |-> [t |-> "int", n |-> IF neg THEN 0 - n ELSE n],
                  pos |-> e]

RECURSIVE JValue(_, _), JMembers(_, _, _)

\* the value that starts at i (no leading whitespace)
JValue(s, i) ==
    IF i > Len(s) THEN JFail
    ELSE IF s[i] = "\"" THEN JString(s, i)
    ELSE IF s[i] = "-" \/ IsDigit(s[i]) THEN JNumber(s, i)
    ELSE IF s[i] = "{" THEN
        LET j == SkipWhile(s, i + 1, JsonWs)
        IN  IF j > Len(s) THEN JFail
            ELSE IF s[j] = "}"
                 THEN [ok |-> TRUE, val |-> [t |-> "dict", m |-> <<>>], pos |-> j + 1]
                 ELSE JMembers(s, j, <<>>)
    ELSE JFail

\* the members of an object from the key at i on; m holds the pairs read so
\* far as a function from keys to values (a repeated key keeps the last)
JMembers(s, i, m) ==
    IF i > Len(s) \/ s[i] # "\"" THEN JFail
    ELSE LET k == JString(s, i)
         IN  IF ~k.ok THEN JFail
             ELSE LET c == SkipWhile(s, k.pos, JsonWs)
                  IN  IF c > Len(s) \/ s[c] # ":" THEN JFail
                      ELSE LET v == JValue(s, SkipWhile(s, c + 1, JsonWs))
                           IN  IF ~v.ok THEN JFail
                               ELSE LET m2 == [x \in (DOMAIN m) \cup {k.val.s} |->
                                                  IF x = k.val.s THEN v.val ELSE m[x]]
                                        e  == SkipWhile(s, v.pos, JsonWs)
                                    IN  IF e > Len(s) THEN JFail
                                        ELSE IF s[e] = "}"
                                             THEN [ok |-> TRUE,
                                                   val |-> [t |-> "dict", m |-> m2],
                                                   pos |-> e + 1]
                                        ELSE IF s[e] = ","
                                             THEN JMembers(s, SkipWhile(s, e + 1, JsonWs), m2)
                                        ELSE JFail

\* json.loads(s): ok is FALSE where it raises JSONDecodeError
JsonLoads(s) ==
    LET v == JValue(s, SkipWhile(s, 1, JsonWs))
    IN  IF ~v.ok THEN [ok |-> FALSE, val |-> [t |-> "none"]]
        ELSE IF SkipWhile(s, v.pos, JsonWs) # Len(s) + 1
             THEN [ok |-> FALSE, val |-> [t |-> "none"]]
        ELSE [ok |-> TRUE, val |-> v.val]


(* ------------------------------- values -------------------------------- *)

NoneVal == [t |-> "none"]

StrVal(s) == [t |-> "str", s |-> s]

NoExc == [exc |-> "none", msg |-> <<>>]

RECURSIVE NatToText(_)
NatToText(n) ==
    IF n < 10 THEN <<Digits[n + 1]>>
    ELSE NatToText(n \div 10) \o <<Digits[(n % 10) + 1]>>

\* str(v), as the f-string of the observation formats a tool result
ToStr(v) ==
    CASE v.t = "str"  -> v.s
      [] v.t = "int"  -> IF v.n < 0 THEN <<"-">> \o NatToText(0 - v.n) ELSE NatToText(v.n)
      [] v.t = "none" -> <<"N", "o", "n", "e">>

\* type(v).__name__, as the TypeError of a call f(**v) names it
TypeName(v) ==
    CASE v.t = "str" -> <<"s", "t", "r">>
      [] v.t = "int" -> <<"i", "n", "t">>

(* -------------------------------- tools -------------------------------- *)
(* A tool is [name, final]: final says it is a ReturnFinalAnswerTool.      *)

SearchTool == [name |-> <<"S">>, final |-> FALSE]

CalcTool == [name |-> <<"C">>, final |-> FALSE]

\* the tool __init__ appends; its name is the one run compares with
ReturnFinalAnswerTool == [name |-> FinalAnswerName, final |-> TRUE]

ToolKinds == {SearchTool, CalcTool, ReturnFinalAnswerTool}

\* the tool lists a caller passes in the runs of the agent loop
CallerToolLists == {<<SearchTool>>, <<ReturnFinalAnswerTool, SearchTool>>}

\* the tool lists a caller passes to the constructor
AllToolLists == UNION {[1..n -> ToolKinds] : n \in 0..MaxTools}

\* what a tool other than the final-answer tool does when it is run: it
\* returns a text or raises an error with a message
ToolOutcomes ==
    {[raises |-> FALSE, text |-> <<"o", "k">>],
     [raises |-> TRUE,  text |-> <<"b", "a", "d", " ", "p", "a", "r", "a", "m">>]}

\* the results of a tool that answers with a text print cannot encode
UnprintableOutcomes ==
    {[raises |-> FALSE, text |-> <<"o", "k">>],
     [raises |-> FALSE, text |-> <<"SUR">>]}

\* the final-answer tool put first instead of last
InitToolsPrepend(list) ==
    IF \E i \in DOMAIN list : list[i].final THEN list
    ELSE <<ReturnFinalAnswerTool>> \o list

\* self.tools after __init__
InitTools(list) ==
    IF \E i \in DOMAIN list : list[i].final THEN list
    ELSE Append(list, ReturnFinalAnswerTool)

\* Agent.tool_names
ToolNames(tls) == Join([i \in DOMAIN tls |-> tls[i].name], <<",", " ">>)

\* Agent.tool_by_names: for each name the index of the last tool that has it
ToolByNames(tls) ==
    [n \in {tls[i].name : i \in DOMAIN tls} |->
        CHOOSE i \in DOMAIN tls :
            /\ tls[i].name = n
            /\ \A j \in DOMAIN tls : tls[j].name = n => j <= i]

(* ------------------------------- _parse -------------------------------- *)

\* the message of the ValueError _parse records when nothing matches
NotParsableMsg(generated) == NotParsableLit \o generated \o <<"BQ">>

\* the tool name _parse substitutes when nothing matches
SyntheticToolName(tls) == ToolErrorLit \o ToolNames(tls)

\* Agent._parse: errors are the entries it appends to errors_encountered;
\* raised says it ends with the exception exc, and tool and tool_input are
\* then its locals at that point
Parse(generated, dbg, tls) ==
    LET m == Search(generated)
    IN  IF ~m.matched
        THEN [raised     |-> TRUE,
              matched    |-> FALSE,
              exc        |-> IF dbg
                             THEN [exc |-> "ValueError", msg |-> NotParsableMsg(generated)]
                             ELSE [exc |-> "AttributeError", msg |-> NoneGroupLit],
              errors     |-> <<[exc |-> "ValueError", msg |-> NotParsableMsg(generated)]>>,
              tool       |-> IF dbg THEN <<>> ELSE SyntheticToolName(tls),
              tool_input |-> IF dbg THEN <<>> ELSE SyntheticToolName(tls)]
        ELSE [raised     |-> FALSE,
              matched    |-> TRUE,
              exc        |-> NoExc,
              errors     |-> <<>>,
              tool       |-> Strip(m.group1),
              tool_input |-> StripChars(StripChars(m.group2, {" "}), {"\""})]

(* ------------------------ the steps of an iteration -------------------- *)

\* str(e) of a JSONDecodeError: the wording of the decoder is not modelled, one
\* token stands for it
JsonErrorMsg == <<"JSONDecodeError">>

\* the decoding without the raise of debug mode
DecodeNoRaise(raw, dbg) ==
    LET s == Sanitize(raw)
        j == JsonLoads(s)
    IN  IF j.ok
        THEN [raised |-> FALSE, exc |-> NoExc, errors |-> <<>>, failed |-> FALSE,
              value |-> j.val]
        ELSE [raised |-> FALSE, exc |-> NoExc,
              errors |-> <<[exc |-> "JSONDecodeError", msg |-> JsonErrorMsg]>>,
              failed |-> TRUE, value |-> StrVal(s)]

\* the sanitizing and decoding of the tool input
Decode(raw, dbg) ==
    LET s == Sanitize(raw)
        j == JsonLoads(s)
    IN  IF j.ok
        THEN [raised |-> FALSE, exc |-> NoExc, errors |-> <<>>, failed |-> FALSE,
              value |-> j.val]
        ELSE [raised |-> dbg,
              exc    |-> IF dbg
                         THEN [exc |-> "ValueError", msg |-> ErrorParsingJsonLit \o JsonErrorMsg]
                         ELSE NoExc,
              errors |-> <<[exc |-> "JSONDecodeError", msg |-> JsonErrorMsg]>>,
              failed |-> TRUE,
              value  |-> StrVal(s)]

\* str(e) of the TypeError of a call of the final-answer tool whose named
\* parameters are not its single input
FinalArgsMsg == <<"a", "r", "g", "u", "m", "e", "n", "t", "s">>

\* ReturnFinalAnswerTool.run(**kwargs): it echoes its single input
FinalAnswerRun(kwargs) ==
    IF Cardinality(DOMAIN kwargs) = 1
    THEN [raised |-> FALSE, exc |-> NoExc, executed |-> TRUE,
          result |-> kwargs[CHOOSE k \in DOMAIN kwargs : TRUE]]
    ELSE [raised |-> TRUE, exc |-> [exc |-> "TypeError", msg |-> FinalArgsMsg],
          executed |-> FALSE, result |-> NoneVal]

\* run(**kwargs) of another tool: what it does is the tool's choice
ExternalRun(outcome) ==
    IF outcome.raises
    THEN [raised |-> TRUE, exc |-> [exc |-> "ValueError", msg |-> outcome.text],
          executed |-> TRUE, result |-> NoneVal]
    ELSE [raised |-> FALSE, exc |-> NoExc, executed |-> TRUE,
          result |-> StrVal(outcome.text)]

\* the tool called with the value as it is, mapping or not
DispatchAnyValue(tls, tool, value, outcome) ==
    IF tool \notin DOMAIN ToolByNames(tls)
    THEN [raised |-> TRUE,
          exc |-> [exc |-> "KeyError", msg |-> <<"'">> \o tool \o <<"'">>],
          executed |-> FALSE, result |-> NoneVal]
    ELSE IF ~tls[ToolByNames(tls)[tool]].final THEN ExternalRun(outcome)
    ELSE IF value.t = "dict" THEN FinalAnswerRun(value.m)
    ELSE [raised |-> FALSE, exc |-> NoExc, executed |-> TRUE, result |-> value]

\* self.tool_by_names[tool].run(**tool_input): executed says the tool's body
\* ran; a name that is no key fails at the lookup (KeyError, whose str is
\* the quoted name), a value that is no mapping fails at the call
Dispatch(tls, tool, value, outcome) ==
    IF tool \notin DOMAIN ToolByNames(tls)
    THEN [raised |-> TRUE,
          exc |-> [exc |-> "KeyError", msg |-> <<"'">> \o tool \o <<"'">>],
          executed |-> FALSE, result |-> NoneVal]
    ELSE IF value.t # "dict"
    THEN [raised |-> TRUE,
          exc |-> [exc |-> "TypeError", msg |-> NotAMappingLit \o TypeName(value)],
          executed |-> FALSE, result |-> NoneVal]
    ELSE IF tls[ToolByNames(tls)[tool]].final THEN FinalAnswerRun(value.m)
    ELSE ExternalRun(outcome)

\* sys.stdout encodes the text: a lone surrogate makes print raise
\* UnicodeEncodeError
Printable(text) == \A i \in DOMAIN text : text[i] # "SUR"

\* str(e) of that UnicodeEncodeError, without the position
EncodeErrorMsg ==
    <<"'", "u", "t", "f", "-", "8", "'", " ", "c", "o", "d", "e", "c", " ", "c", "a", "n", "'",
      "t", " ", "e", "n", "c", "o", "d", "e", " ", "c", "h", "a", "r", "a", "c", "t", "e", "r",
      " ", "'", "\\", "u", "d", "8", "0", "0", "'", ":", " ", "s", "u", "r", "r", "o", "g",
      "a", "t", "e", "s", " ", "n", "o", "t", " ", "a", "l", "l", "o", "w", "e", "d">>

\* if self.verbose: print('tool_result', tool_result), inside the try of the
\* dispatch: a print that raises is handled as a call of the tool that
\* raised, after the body of the tool ran
PrintResult(vb, dbg, t) ==
    IF t.failed \/ ~vb \/ Printable(ToStr(t.tool_result)) THEN t
    ELSE [raised |-> dbg,
          exc    |-> IF dbg
                     THEN [exc |-> "ValueError", msg |-> ErrorFromToolLit \o EncodeErrorMsg]
                     ELSE NoExc,
          errors |-> <<[exc |-> "UnicodeEncodeError", msg |-> EncodeErrorMsg]>>,
          failed |-> TRUE,
          executed |-> t.executed,
          tool_result |-> StrVal(ErrorFromToolLit \o EncodeErrorMsg)]

\* the except branch without the append to the error log
ToolStepNoLog(tls, tool, value, outcome, dbg) ==
    LET d == Dispatch(tls, tool, value, outcome)
    IN  IF ~d.raised
        THEN [raised |-> FALSE, exc |-> NoExc, errors |-> <<>>, failed |-> FALSE,
              executed |-> d.executed, tool_result |-> d.result]
        ELSE [raised |-> dbg,
              exc    |-> IF dbg
                         THEN [exc |-> "ValueError", msg |-> ErrorFromToolLit \o d.exc.msg]
                         ELSE NoExc,
              errors |-> <<>>,
              failed |-> TRUE,
              executed |-> d.executed,
              tool_result |-> StrVal(ErrorFromToolLit \o d.exc.msg)]

\* the try/except around the dispatch
ToolStep(tls, tool, value, outcome, dbg) ==
    LET d == Dispatch(tls, tool, value, outcome)
    IN  IF ~d.raised
        THEN [raised |-> FALSE, exc |-> NoExc, errors |-> <<>>, failed |-> FALSE,
              executed |-> d.executed, tool_result |-> d.result]
        ELSE [raised |-> dbg,
              exc    |-> IF dbg
                         THEN [exc |-> "ValueError", msg |-> ErrorFromToolLit \o d.exc.msg]
                         ELSE NoExc,
              errors |-> <<d.exc>>,
              failed |-> TRUE,
              executed |-> d.executed,
              tool_result |-> StrVal(ErrorFromToolLit \o d.exc.msg)]

\* generated += f"\n{OBSERVATION_TOKEN} {tool_result}\nNext Thought:"
Turn(generated, tool_result) ==
    generated \o <<"\n">> \o OBSERVATION_TOKEN \o <<" ">> \o ToStr(tool_result)
              \o NextThoughtLit

\* the test run makes before it returns the tool result
IsFinalAnswer(tool) == tool = FinalAnswerName

\* the unknown-tool test left out
KnownToolAlways(tls, tool) == TRUE

\* the tool name is a key of tool_by_names
KnownTool(tls, tool) == tool \in DOMAIN ToolByNames(tls)

(* --------------------------- one loop iteration ------------------------ *)

\* what an iteration that is still to run has done
NoIteration ==
    [exit |-> "none", exc |-> NoExc, errors |-> <<>>, appended |-> FALSE, turn |-> <<>>,
     generated |-> <<>>, matched |-> FALSE, parsed |-> FALSE, tool |-> <<>>, raw_input |-> <<>>,
     known |-> FALSE, decode_failed |-> FALSE, value |-> NoneVal, dispatched |-> FALSE,
     executed |-> FALSE, tool_failed |-> FALSE, tool_result |-> NoneVal]

\* The body of the while loop of run from the answer of the model on, in
\* four stages; each stage is handed the value of the call before it, which
\* is thereby computed once.  In the record of an iteration exit is "raise"
\* (run ends with exc), "final" (run returns tool_result) or "next" (the
\* loop test follows); errors are the entries appended to
\* errors_encountered, turn the text appended to the two histories.

\* the turn appended to the histories before the raise of debug mode
AfterToolAppendsFirst(o2, p, d, t, generated) ==
    LET o3 == [o2 EXCEPT !.dispatched = TRUE, !.errors = d.errors \o t.errors,
                         !.executed = t.executed, !.tool_failed = t.failed,
                         !.appended = TRUE,
                         !.turn = Turn(generated, t.tool_result)]
    IN  IF t.raised THEN [o3 EXCEPT !.exc = t.exc]
        ELSE [o3 EXCEPT !.exit = IF IsFinalAnswer(p.tool) THEN "final" ELSE "next",
                        !.tool_result = t.tool_result]

\* the return taken only after a call of the final-answer tool that did not
\* fail
AfterToolFinalOnSuccess(o2, p, d, t, generated) ==
    LET o3 == [o2 EXCEPT !.dispatched = TRUE, !.errors = d.errors \o t.errors,
                         !.executed = t.executed, !.tool_failed = t.failed]
    IN  IF t.raised THEN [o3 EXCEPT !.exc = t.exc]
        ELSE [o3 EXCEPT !.exit = IF IsFinalAnswer(p.tool) /\ ~t.failed THEN "final"
                                 ELSE "next",
                        !.appended = TRUE,
                        !.tool_result = t.tool_result,
                        !.turn = Turn(generated, t.tool_result)]

\* the return taken after the call of any tool
AfterToolAlwaysFinal(o2, p, d, t, generated) ==
    LET o3 == [o2 EXCEPT !.dispatched = TRUE, !.errors = d.errors \o t.errors,
                         !.executed = t.executed, !.tool_failed = t.failed]
    IN  IF t.raised THEN [o3 EXCEPT !.exc = t.exc]
        ELSE [o3 EXCEPT !.exit = "final",
                        !.appended = TRUE,
                        !.tool_result = t.tool_result,
                        !.turn = Turn(generated, t.tool_result)]

\* after the try/except of the dispatch has given t: the observation is
\* appended and the final-answer test made
AfterTool(o2, p, d, t, generated) ==
    LET o3 == [o2 EXCEPT !.dispatched = TRUE, !.errors = d.errors \o t.errors,
                         !.executed = t.executed, !.tool_failed = t.failed]
    IN  IF t.raised THEN [o3 EXCEPT !.exc = t.exc]
        ELSE [o3 EXCEPT !.exit = IF IsFinalAnswer(p.tool) THEN "final" ELSE "next",
                        !.appended = TRUE,
                        !.tool_result = t.tool_result,
                        !.turn = Turn(generated, t.tool_result)]

\* after the decoding of the tool input has given d: the dispatch, and
\* inside its try the print of the result
AfterDecode(tls, dbg, vb, generated, outcome, o1, p, d) ==
    LET o2 == [o1 EXCEPT !.known = TRUE, !.errors = d.errors,
                         !.decode_failed = d.failed, !.value = d.value]
    IN  IF d.raised THEN [o2 EXCEPT !.exc = d.exc]
        ELSE CHOOSE o \in {AfterTool(o2, p, d, t, generated) :
                             t \in {PrintResult(vb, dbg,
                                       ToolStep(tls, p.tool, d.value, outcome, dbg))}} : TRUE

\* the print calls of decide_next_action and of run before the
\* unknown-tool test all return
PrintsParsed(prompt, generated, p) ==
    /\ Printable(p.tool)
    /\ Printable(p.tool_input)
    /\ Printable(prompt)
    /\ Printable(generated)

\* after decide_next_action has given p: its print calls and those of run,
\* the unknown-tool test and the decoding
AfterParse(tls, dbg, vb, prompt, generated, outcome, p) ==
    LET o1 == [NoIteration EXCEPT !.exit = "raise", !.generated = generated,
                                  !.matched = p.matched, !.parsed = ~p.raised,
                                  !.errors = p.errors,
                                  !.tool = p.tool, !.raw_input = p.tool_input]
    IN  IF p.raised THEN [o1 EXCEPT !.exc = p.exc]
        ELSE IF vb /\ ~PrintsParsed(prompt, generated, p)
        THEN [o1 EXCEPT !.exc = [exc |-> "UnicodeEncodeError", msg |-> EncodeErrorMsg]]
        ELSE IF ~KnownTool(tls, p.tool)
        THEN [o1 EXCEPT !.exc = [exc |-> "ValueError", msg |-> UnknownToolLit \o p.tool]]
        ELSE CHOOSE o \in {AfterDecode(tls, dbg, vb, generated, outcome, o1, p, d) :
                             d \in {Decode(p.tool_input, dbg)}} : TRUE

\* one iteration, given self.verbose, the text of the prompt, the text the
\* model generated and what the tool does if it is run
Iteration(tls, dbg, vb, prompt, generated, outcome) ==
    CHOOSE o \in {AfterParse(tls, dbg, vb, prompt, generated, outcome, p) :
                     p \in {Parse(generated, dbg, tls)}} : TRUE

\* the while test with <= for <
LoopGoesOnOffByOne(n, max) == n <= max

\* the while test of run
LoopGoesOn(n, max) == n < max

\* the previous-responses part of curr_prompt
RenderPrevious(previous) == Strip(Join(previous, <<"\n">>))

\* a working list that starts empty
SeedPreviousEmpty(history) == <<>>

\* the working list a run starts with: a copy of the persistent history
SeedPrevious(history) == history

(* ------------------------------- the state ----------------------------- *)

Runs == 1..MaxRuns

\* the answers of the language model
Generations ==
    {ActionLit \o <<"S", "\n">> \o ActionInputLit \o <<" ", "{", "}">>,
     ActionLit \o <<"S", "\n">> \o ActionInputLit \o <<" ", "c", "a", "t", "s">>,
     ActionLit \o FinalAnswerName \o <<"\n">> \o ActionInputLit
               \o <<" ", "\"", "4", "2", "\"">>,
     ActionLit \o FinalAnswerName \o <<"\n">> \o ActionInputLit
               \o <<" ", "{", "\"", "a", "\"", ":", " ", "\"", "4", "2", "\"", "}">>,
     ActionLit \o FinalAnswerName \o <<"\n">> \o ActionInputLit
               \o <<" ", "n", "o", " ", "c", "a", "t", "s">>,
     ActionLit \o <<"X", "\n">> \o ActionInputLit \o <<" ", "{", "}">>,
     <<"I", " ", "d", "o", " ", "n", "o", "t", " ", "k", "n", "o", "w">>}

\* the answers of a language model that always calls the search tool or
\* names no tool of the catalogue
SearchGenerations ==
    {ActionLit \o <<"S", "\n">> \o ActionInputLit \o <<" ", "{", "}">>,
     ActionLit \o <<"S", "\n">> \o ActionInputLit \o <<" ", "c", "a", "t", "s">>,
     ActionLit \o <<"X", "\n">> \o ActionInputLit \o <<" ", "{", "}">>}

\* the goals of the tasks
Goals == {<<"g">>}

VARIABLES
    constructed,         \* __init__ has run
    llm,                 \* self.llm: the texts the language model may answer
    caller_tools,        \* the tool list as the caller built it
    debug,               \* self.debug
    verbose,             \* self.verbose
    behaviours,          \* what the tools of the caller may do when they are run
    max_loops,           \* self.max_loops
    tools,               \* self.tools
    ai_responses,        \* self.ai_responses
    errors_encountered,  \* self.errors_encountered
    pc,                  \* per run call: "idle", "loop", "returned", "raised"
    task,                \* per run call: the Task it is given
    previous_responses,  \* per run call: its local working list
    num_loops,           \* per run call: its local counter
    curr_prompt,         \* per run call: the last prompt sent to the model
    result,              \* per run call: what it returned or raised
    llm_calls,           \* per run call: the number of llm.generate calls
    tool_runs,           \* per run call: the number of tool bodies executed
    turn_owner,          \* for each entry of ai_responses the run that appended it
    last,                \* the most recent iteration, with its run and number
    serialized,          \* the caller makes the run calls on the Agent one after the other
    probe,               \* a text handed to _parse or to the decoding alone, and the result
    twin                 \* a second Agent that differs in verbose only, given the same calls

vars ==
    <<constructed, llm, caller_tools, debug, verbose, behaviours, max_loops, tools,
      ai_responses, errors_encountered, pc, task, previous_responses, num_loops,
      curr_prompt, result, llm_calls, tool_runs, turn_owner, last, serialized, probe,
      twin>>

agent_config ==
    <<constructed, llm, caller_tools, debug, verbose, behaviours, max_loops, tools>>

NoTask == [goal |-> <<>>, raw_output |-> NoneVal, completed |-> FALSE]

\* a prompt is its goal, its tool names and its previous-responses part; the
\* date and the tool descriptions of the template are left out
NoPrompt == [sent |-> FALSE, goal |-> <<>>, tool_names |-> <<>>, previous_responses |-> <<>>]

NoResult == [kind |-> "pending", value |-> NoneVal, exc |-> NoExc]

NoLast ==
    [run |-> 0, iteration |-> 0, errs_before |-> 0, hist_before |-> 0, o |-> NoIteration]

\* no second Agent
NoTwin == [on |-> FALSE]

\* an Agent that does not print, with the tools of the model, and no second
\* Agent
Quiet ==
    /\ verbose = FALSE
    /\ behaviours = ToolOutcomes
    /\ twin = NoTwin

NoProbe == [fn |-> "none", text |-> <<>>, base |-> <<>>, done |-> FALSE, out |-> NoneVal]

RECURSIVE SumCalls(_, _)
SumCalls(f, n) == IF n = 0 THEN 0 ELSE f[n] + SumCalls(f, n - 1)

\* the number of prompts the model has answered
TotalCalls == SumCalls(llm_calls, MaxRuns)

\* the fields of a run call that has not started
IdleRuns ==
    /\ pc = [r \in Runs |-> "idle"]
    /\ task = [r \in Runs |-> NoTask]
    /\ previous_responses = [r \in Runs |-> <<>>]
    /\ num_loops = [r \in Runs |-> 0]
    /\ curr_prompt = [r \in Runs |-> NoPrompt]
    /\ result = [r \in Runs |-> NoResult]
    /\ llm_calls = [r \in Runs |-> 0]
    /\ tool_runs = [r \in Runs |-> 0]
    /\ turn_owner = <<>>
    /\ last = NoLast

(* ------------------------------ __init__ ------------------------------- *)

\* Agent(llm, list, max_loops = ml, debug = dbg) has been called
Constructed(list, ml, dbg) ==
    /\ constructed = TRUE
    /\ caller_tools = list
    /\ tools = InitTools(list)
    /\ max_loops = ml
    /\ debug = dbg
    /\ ai_responses = <<>>
    /\ errors_encountered = <<>>

\* the state after construction
Init ==
    /\ \E list \in CallerToolLists, ml \in 0..MaxLoops, dbg \in BOOLEAN :
          Constructed(list, ml, dbg)
    /\ IdleRuns
    /\ llm = Generations
    /\ serialized = TRUE
    /\ Quiet
    /\ probe = NoProbe

\* the state before construction: the caller holds a tool list
InitNew ==
    /\ constructed = FALSE
    /\ caller_tools \in AllToolLists
    /\ tools = caller_tools
    /\ max_loops \in 0..MaxLoops
    /\ debug \in BOOLEAN
    /\ ai_responses = <<>>
    /\ errors_encountered = <<>>
    /\ IdleRuns
    /\ llm = Generations
    /\ serialized = TRUE
    /\ Quiet
    /\ probe = NoProbe

\* Agent.__init__
Construct ==
    /\ ~constructed
    /\ constructed' = TRUE
    /\ tools' = InitTools(tools)
    /\ ai_responses' = <<>>
    /\ errors_encountered' = <<>>
    /\ UNCHANGED <<llm, caller_tools, debug, verbose, behaviours, max_loops, pc, task,
                   previous_responses, num_loops, curr_prompt, result, llm_calls,
                   tool_runs, turn_owner, last, serialized, probe, twin>>

(* --------------------------------- run --------------------------------- *)

\* the second Agent after construction, before any run call on it
NewTwin ==
    [on |-> TRUE, ai_responses |-> <<>>, errors_encountered |-> <<>>,
     pc |-> [r \in Runs |-> "idle"], task |-> [r \in Runs |-> NoTask],
     previous_responses |-> [r \in Runs |-> <<>>], num_loops |-> [r \in Runs |-> 0],
     curr_prompt |-> [r \in Runs |-> NoPrompt], result |-> [r \in Runs |-> NoResult],
     llm_calls |-> [r \in Runs |-> 0], tool_runs |-> [r \in Runs |-> 0]]

\* run(task) called on the second Agent, up to the first while test
TwinStart(tw, r, goal) ==
    IF ~tw.on THEN tw
    ELSE [tw EXCEPT !.task[r] = [NoTask EXCEPT !.goal = goal],
                    !.previous_responses[r] = SeedPrevious(tw.ai_responses),
                    !.num_loops[r] = 0,
                    !.pc[r] = IF LoopGoesOn(0, max_loops) THEN "loop" ELSE "returned",
                    !.result[r] = IF LoopGoesOn(0, max_loops) THEN NoResult
                                  ELSE [NoResult EXCEPT !.kind = "none"]]

\* what one pass through the while body, with the iteration o, makes of the
\* second Agent
TwinAfter(tw, r, o) ==
    LET n == tw.num_loops[r] + 1
        on == o.exit = "next" /\ LoopGoesOn(n, max_loops)
    IN  [tw EXCEPT
           !.num_loops[r] = n,
           !.curr_prompt[r] =
               [sent |-> TRUE, goal |-> tw.task[r].goal, tool_names |-> ToolNames(tools),
                previous_responses |-> RenderPrevious(tw.previous_responses[r])],
           !.llm_calls[r] = @ + 1,
           !.tool_runs[r] = IF o.executed THEN @ + 1 ELSE @,
           !.errors_encountered = @ \o o.errors,
           !.ai_responses = IF o.appended THEN Append(@, Strip(o.turn)) ELSE @,
           !.previous_responses[r] = IF o.appended THEN Append(@, o.turn) ELSE @,
           !.task[r] = IF o.exit = "final"
                       THEN [@ EXCEPT !.raw_output = o.tool_result, !.completed = TRUE]
                       ELSE @,
           !.pc[r] = IF o.exit = "raise" THEN "raised" ELSE IF on THEN "loop" ELSE "returned",
           !.result[r] =
               IF o.exit = "raise" THEN [NoResult EXCEPT !.kind = "raised", !.exc = o.exc]
               ELSE IF o.exit = "final"
               THEN [NoResult EXCEPT !.kind = "value", !.value = o.tool_result]
               ELSE IF on THEN NoResult ELSE [NoResult EXCEPT !.kind = "none"]]

\* the same pass on the second Agent, whose verbose is the other value: the
\* model and the tool answer it as they answer the first
TwinIterate(tw, r, generated, outcome) ==
    IF ~tw.on \/ tw.pc[r] # "loop" THEN tw
    ELSE CHOOSE t \in {TwinAfter(tw, r, o) :
                         o \in {Iteration(tools, debug, ~verbose,
                                          RenderPrevious(tw.previous_responses[r]),
                                          generated, outcome)}} : TRUE

\* run(task) is called and reaches the while test for the first time; the
\* calls are numbered in the order they are made, and a caller that
\* serializes its calls makes one after the other has ended
RunStart(r) ==
    /\ constructed
    /\ pc[r] = "idle"
    /\ \A q \in Runs : q < r => pc[q] # "idle"
    /\ serialized => \A q \in Runs : q < r => pc[q] \in {"returned", "raised"}
    /\ \E goal \in Goals :
          /\ task' = [task EXCEPT ![r] = [NoTask EXCEPT !.goal = goal]]
          /\ twin' = TwinStart(twin, r, goal)
    /\ previous_responses' = [previous_responses EXCEPT ![r] = SeedPrevious(ai_responses)]
    /\ num_loops' = [num_loops EXCEPT ![r] = 0]
    /\ pc' = [pc EXCEPT ![r] = IF LoopGoesOn(0, max_loops) THEN "loop" ELSE "returned"]
    /\ result' = [result EXCEPT ![r] =
                    IF LoopGoesOn(0, max_loops) THEN NoResult
                    ELSE [NoResult EXCEPT !.kind = "none"]]
    /\ UNCHANGED <<agent_config, ai_responses, errors_encountered, curr_prompt,
                   llm_calls, tool_runs, turn_owner, last, serialized, probe>>

\* one pass through the while body, from the rendering of the prompt to the
\* return, the raise or the next while test
RunIteration(r) ==
    /\ pc[r] = "loop"
    /\ TotalCalls < MaxCalls
    /\ \E generated \in llm, outcome \in behaviours :
          \E o \in {Iteration(tools, debug, verbose,
                               RenderPrevious(previous_responses[r]), generated, outcome)} :
          LET n == num_loops[r] + 1
          IN  /\ num_loops' = [num_loops EXCEPT ![r] = n]
              /\ twin' = TwinIterate(twin, r, generated, outcome)
              /\ curr_prompt' = [curr_prompt EXCEPT ![r] =
                    [sent |-> TRUE, goal |-> task[r].goal, tool_names |-> ToolNames(tools),
                     previous_responses |-> RenderPrevious(previous_responses[r])]]
              /\ llm_calls' = [llm_calls EXCEPT ![r] = @ + 1]
              /\ tool_runs' = [tool_runs EXCEPT ![r] = IF o.executed THEN @ + 1 ELSE @]
              /\ errors_encountered' = errors_encountered \o o.errors
              /\ ai_responses' =
                    IF o.appended THEN Append(ai_responses, Strip(o.turn)) ELSE ai_responses
              /\ turn_owner' = IF o.appended THEN Append(turn_owner, r) ELSE turn_owner
              /\ previous_responses' =
                    IF o.appended
                    THEN [previous_responses EXCEPT ![r] = Append(@, o.turn)]
                    ELSE previous_responses
              /\ task' =
                    IF o.exit = "final"
                    THEN [task EXCEPT ![r].raw_output = o.tool_result, ![r].completed = TRUE]
                    ELSE task
              /\ pc' = [pc EXCEPT ![r] =
                    CASE o.exit = "raise" -> "raised"
                      [] o.exit = "final" -> "returned"
                      [] o.exit = "next"  -> IF LoopGoesOn(n, max_loops) THEN "loop"
                                             ELSE "returned"]
              /\ result' = [result EXCEPT ![r] =
                    CASE o.exit = "raise" -> [NoResult EXCEPT !.kind = "raised", !.exc = o.exc]
                      [] o.exit = "final" -> [NoResult EXCEPT !.kind = "value",
                                                              !.value = o.tool_result]
                      [] o.exit = "next"  -> IF LoopGoesOn(n, max_loops) THEN NoResult
                                             ELSE [NoResult EXCEPT !.kind = "none"]]
              /\ last' = [run |-> r, iteration |-> n,
                          errs_before |-> Len(errors_encountered),
                          hist_before |-> Len(ai_responses), o |-> o]
    /\ UNCHANGED <<agent_config, serialized, probe>>

Next == \E r \in Runs : RunStart(r) \/ RunIteration(r)

Spec == Init /\ [][Next]_vars

\* the constructor alone, over every tool list
SpecConstruct == InitNew /\ [][Construct]_vars

\* the state after construction, for a caller that serializes its run calls
\* and for one that lets them overlap
InitConcurrent ==
    /\ \E dbg \in BOOLEAN : Constructed(<<SearchTool>>, MaxLoops, dbg)
    /\ IdleRuns
    /\ llm = SearchGenerations
    /\ serialized \in BOOLEAN
    /\ Quiet
    /\ probe = NoProbe

\* run calls on one Agent that may interleave, one iteration at a time
SpecConcurrent == InitConcurrent /\ [][Next]_vars

(* --------------------------- _parse on its own ------------------------- *)

ThoughtLit ==
    <<"T", "h", "o", "u", "g", "h", "t", ":", " ">>

\* generated text of the form: Thought, newline, Action, newline, Action
\* Input, newline
ActionText(thought, name, payload) ==
    ThoughtLit \o thought \o <<"\n">> \o ActionLit \o name \o <<"\n">>
               \o ActionInputLit \o <<" ">> \o payload \o <<"\n">>

ProbeThoughts ==
    {<<"x">>,
     <<"I", " ", "s", "e", "a", "r", "c", "h">>}

ProbeNames ==
    {<<"S">>,
     <<"S", "e", "a", "r", "c", "h">>,
     FinalAnswerName}

\* one-line payloads with no whitespace or quote at either end
ProbePayloads ==
    {<<"{", "}">>,
     <<"{", "\"", "q", "\"", ":", " ", "\"", "c", "a", "t", "s", "\"", "}">>,
     <<"c", "a", "t", "s">>,
     <<"4", "2">>}

ActionTexts ==
    {ActionText(th, n, p) : th \in ProbeThoughts, n \in ProbeNames, p \in ProbePayloads}

\* the texts _parse is handed: the action texts, the same without the
\* newline at their end, and a text without an action
ParseTexts ==
    ActionTexts \cup {SubSeq(t, 1, Len(t) - 1) : t \in ActionTexts}
                \cup {<<"I", " ", "d", "o", " ", "n", "o", "t", " ", "k", "n", "o", "w">>}

\* an Agent is constructed and a text is about to be parsed
InitParse ==
    /\ \E list \in CallerToolLists, ml \in 0..MaxLoops, dbg \in BOOLEAN :
          Constructed(list, ml, dbg)
    /\ IdleRuns
    /\ llm = Generations
    /\ serialized = TRUE
    /\ Quiet
    /\ \E t \in ParseTexts : probe = [NoProbe EXCEPT !.fn = "parse", !.text = t]

\* self._parse(generated)
ParseProbe ==
    /\ probe.fn = "parse"
    /\ ~probe.done
    /\ probe' = [probe EXCEPT !.done = TRUE, !.out = Parse(probe.text, debug, tools)]
    /\ UNCHANGED <<agent_config, ai_responses, errors_encountered, pc, task,
                   previous_responses, num_loops, curr_prompt, result, llm_calls,
                   tool_runs, turn_owner, last, serialized, twin>>

\* the parser alone, over the texts
SpecParse == InitParse /\ [][ParseProbe]_vars

(* ------------------- the decoding of run on its own -------------------- *)

\* tool inputs that are JSON objects, free of control characters
JsonObjects ==
    {<<"{", "}">>,
     <<"{", "\"", "q", "\"", ":", " ", "\"", "c", "a", "t", "s", "\"", "}">>,
     <<"{", "\"", "a", "\"", ":", " ", "1", "2", "}">>}

\* s with the character c put in before position i
InsertAt(s, i, c) == SubSeq(s, 1, i - 1) \o <<c>> \o SubSeq(s, i, Len(s))

\* position i of s lies in a string: the number of quotes before it is odd
InString(s, i) == Cardinality({k \in 1..(i - 1) : s[k] = "\""}) % 2 = 1

\* the string position i lies in is a value: a colon stands before its
\* opening quote
InValue(s, i) ==
    LET q == CHOOSE k \in 1..(i - 1) : s[k] = "\"" /\ \A j \in (k + 1)..(i - 1) : s[j] # "\""
        c == SkipBack(s, q - 1, JsonWs \cup ControlChars)
    IN  c >= 1 /\ s[c] = ":"

\* the positions of s, its end included, that lie outside its string values
OutsideValues(s) ==
    {i \in 1..(Len(s) + 1) : ~InString(s, i) \/ ~InValue(s, i)}

RECURSIVE WithInserted(_, _)
\* the texts of set with up to n control characters put in outside the
\* string values
WithInserted(set, n) ==
    IF n = 0 THEN set
    ELSE LET less == WithInserted(set, n - 1)
         IN  less \cup UNION {{InsertAt(s, i, c) : i \in OutsideValues(s), c \in ControlChars} :
                                 s \in less}

\* an Agent is constructed and a tool input is about to be decoded
InitDecode ==
    /\ \E dbg \in BOOLEAN : Constructed(<<SearchTool>>, MaxLoops, dbg)
    /\ IdleRuns
    /\ llm = Generations
    /\ serialized = TRUE
    /\ Quiet
    /\ \E b \in JsonObjects : \E t \in WithInserted({b}, MaxInsert) :
          probe = [NoProbe EXCEPT !.fn = "decode", !.text = t, !.base = b]

\* the try block of run that sanitizes and decodes tool_input: sanitized is
\* tool_input after the substitution, d what the decoding gave
DecodeProbe ==
    /\ probe.fn = "decode"
    /\ ~probe.done
    /\ probe' = [probe EXCEPT !.done = TRUE,
                              !.out = [sanitized |-> Sanitize(probe.text),
                                       d |-> Decode(probe.text, debug)]]
    /\ UNCHANGED <<agent_config, ai_responses, errors_encountered, pc, task,
                   previous_responses, num_loops, curr_prompt, result, llm_calls,
                   tool_runs, turn_owner, last, serialized, twin>>

\* the decoding alone, over the tool inputs
SpecDecode == InitDecode /\ [][DecodeProbe]_vars

(* ------------------------ two Agents side by side ---------------------- *)

\* the answers of a language model, one of them with a character print
\* cannot encode in its thought
VerboseGenerations ==
    {ActionLit \o <<"S", "\n">> \o ActionInputLit \o <<" ", "{", "}">>,
     ThoughtLit \o <<" ", "SUR", "\n">> \o ActionLit \o <<"S", "\n">> \o ActionInputLit
                \o <<" ", "{", "}">>,
     ActionLit \o FinalAnswerName \o <<"\n">> \o ActionInputLit
               \o <<" ", "{", "\"", "a", "\"", ":", " ", "\"", "4", "2", "\"", "}">>,
     ActionLit \o <<"S", "\n">> \o ActionInputLit \o <<" ", "c", "a", "t", "s">>}

\* two Agents constructed alike but for verbose, before any run call
InitVerbose ==
    /\ \E ml \in 1..MaxLoops, dbg \in BOOLEAN : Constructed(<<SearchTool>>, ml, dbg)
    /\ IdleRuns
    /\ llm = VerboseGenerations
    /\ serialized = TRUE
    /\ probe = NoProbe
    /\ verbose \in BOOLEAN
    /\ behaviours = UnprintableOutcomes
    /\ twin = NewTwin

\* the run calls made on both Agents, with the same answers of the model and
\* of the tools
SpecVerbose == InitVerbose /\ [][Next]_vars

(* ------------------------------ the claims ----------------------------- *)

\* the names of the catalogue
CatalogueNames == {tools[i].name : i \in DOMAIN tools}

\* the newest entry of the error log
NewestError == errors_encountered[Len(errors_encountered)]

\* the newest entry of the persistent history
NewestResponse == ai_responses[Len(ai_responses)]

\* the texts that count as the input X of a final answer: the input text the
\* parser returns, or the single input a JSON object hands to the tool
AnswerTexts(o) ==
    {o.raw_input} \cup
    (IF o.value.t = "dict" /\ Cardinality(DOMAIN o.value.m) = 1
     THEN {ToStr(o.value.m[CHOOSE k \in DOMAIN o.value.m : TRUE])}
     ELSE {})

\* C1: when an iteration selects the final-answer tool with input text X,
\* run returns X in that iteration, task.raw_output is X and task.completed
\* is True.
C1_FinalAnswerReturned ==
    \A r \in Runs :
        (last.run = r /\ last.o.parsed /\ IsFinalAnswer(last.o.tool)) =>
            /\ pc[r] = "returned"
            /\ result[r].kind = "value"
            /\ result[r].value.t = "str"
            /\ result[r].value.s \in AnswerTexts(last.o)
            /\ task[r].raw_output = result[r].value
            /\ task[r].completed

\* C2: a run in which the model never selects the final-answer tool and no
\* error is raised makes one model call per iteration, stays in the loop
\* only below max_loops, and returns no value after exactly max_loops
\* iterations and max_loops model calls, the task not completed.
C2_ExactlyMaxLoops ==
    \A r \in Runs :
        /\ pc[r] = "loop" => num_loops[r] < max_loops
        /\ pc[r] \in {"loop", "returned"} => llm_calls[r] = num_loops[r]
        /\ (pc[r] = "returned" /\ ~task[r].completed) =>
              /\ result[r] = [NoResult EXCEPT !.kind = "none"]
              /\ num_loops[r] = max_loops
              /\ llm_calls[r] = max_loops
              /\ task[r].raw_output = NoneVal

\* a run with max_loops >= 2 has fallen through after max_loops model calls
C2_Witness ==
    \E r \in Runs :
        /\ max_loops >= 2
        /\ pc[r] = "returned"
        /\ result[r].kind = "none"
        /\ llm_calls[r] = max_loops

\* C3: in non-debug mode, when the call of the dispatched tool raises an
\* error with message m, the run is not aborted, the error is in the error
\* log, the turn appended to history carries the observation
\* "Error from tool: m", and while budget remains the loop goes on.
C3_ToolErrorGoesOn ==
    \A r \in Runs :
        (~debug /\ last.run = r /\ last.o.tool_failed) =>
            /\ pc[r] # "raised"
            /\ Len(errors_encountered) > last.errs_before
            /\ Len(ai_responses) = last.hist_before + 1
            /\ NewestResponse =
                  Strip(Turn(last.o.generated, StrVal(ErrorFromToolLit \o NewestError.msg)))
            /\ last.iteration < max_loops => pc[r] = "loop"

\* C4 (states): in debug mode an iteration whose output does not match the
\* grammar, whose input does not decode or whose tool call raises ends the
\* run with a raised ValueError, after exactly one new entry in the error
\* log, with no turn appended and the task not completed.
C4_DebugAbortState ==
    \A r \in Runs :
        (debug /\ last.run = r
               /\ (~last.o.matched \/ last.o.decode_failed \/ last.o.tool_failed)) =>
            /\ pc[r] = "raised"
            /\ result[r].kind = "raised"
            /\ result[r].exc.exc = "ValueError"
            /\ Len(errors_encountered) = last.errs_before + 1
            /\ NewestError.exc \in (IF ~last.o.matched THEN {"ValueError"}
                                    ELSE IF last.o.decode_failed THEN {"JSONDecodeError"}
                                    ELSE {"ValueError", "TypeError"})
            /\ result[r].exc.msg =
                  (IF ~last.o.matched THEN NotParsableMsg(last.o.generated)
                   ELSE IF last.o.decode_failed THEN ErrorParsingJsonLit \o NewestError.msg
                   ELSE ErrorFromToolLit \o NewestError.msg)
            /\ ~last.o.appended
            /\ Len(ai_responses) = last.hist_before
            /\ llm_calls[r] = last.iteration
            /\ task[r] = [NoTask EXCEPT !.goal = task[r].goal]

\* C4 (steps): a run that has raised makes no further model call and its
\* task is not written
C4_DebugAbortStep ==
    \A r \in Runs :
        pc[r] = "raised" =>
            /\ pc'[r] = "raised"
            /\ llm_calls'[r] = llm_calls[r]
            /\ task'[r] = task[r]

\* C4: in debug mode each of the three recoverable conditions aborts run
\* with a raised error in the iteration where it occurs: the error is logged
\* first, no turn is appended, no further model call happens and the task
\* is not marked completed.
C4_DebugAbort == []C4_DebugAbortState /\ [][C4_DebugAbortStep]_vars

\* in debug mode one run was aborted by an input that does not decode and
\* the next by a tool that raised
C4_Witness ==
    /\ debug
    /\ MaxRuns >= 2
    /\ pc[1] = "raised"
    /\ pc[2] = "raised"
    /\ Len(errors_encountered) = 2
    /\ errors_encountered[1].exc = "JSONDecodeError"
    /\ last.run = 2
    /\ last.o.tool_failed
    /\ last.o.executed

\* C5: whenever the parsed tool name is no name of the catalogue, run
\* raises the unknown-tool error in that iteration, debug or not: no tool is
\* invoked, the iteration is not retried, no turn is appended and the task
\* is not marked completed.
C5_UnknownToolFatal ==
    \A r \in Runs :
        (last.run = r /\ last.o.parsed /\ last.o.tool \notin CatalogueNames) =>
            /\ pc[r] = "raised"
            /\ result[r].kind = "raised"
            /\ result[r].exc = [exc |-> "ValueError", msg |-> UnknownToolLit \o last.o.tool]
            /\ ~last.o.dispatched
            /\ ~last.o.executed
            /\ ~last.o.appended
            /\ Len(ai_responses) = last.hist_before
            /\ num_loops[r] = last.iteration
            /\ llm_calls[r] = last.iteration
            /\ ~task[r].completed

\* in non-debug mode the second iteration of a run named an unknown tool
C5_Witness ==
    \E r \in Runs :
        /\ ~debug
        /\ last.run = r
        /\ last.iteration >= 2
        /\ last.o.parsed
        /\ last.o.tool \notin CatalogueNames
        /\ pc[r] = "raised"

\* C6: in non-debug mode, when the generated text holds no Action / Action
\* Input pair, the parser records a parse-failure error and returns the
\* synthetic corrective tool name as both the tool name and the tool input.
C6_ParserReturnsSynthetic ==
    \A r \in Runs :
        (~debug /\ last.run = r /\ ~last.o.matched) =>
            /\ Len(errors_encountered) > last.errs_before
            /\ errors_encountered[last.errs_before + 1] =
                  [exc |-> "ValueError", msg |-> NotParsableMsg(last.o.generated)]
            /\ last.o.parsed
            /\ last.o.tool = SyntheticToolName(tools)
            /\ last.o.raw_input = SyntheticToolName(tools)

\* C7: in non-debug mode a model output that does not match the action
\* grammar never aborts run: a turn with a corrective observation is
\* appended for the next prompt and the run is not ended by a raised error.
C7_ParseFailureGoesOn ==
    \A r \in Runs :
        (~debug /\ last.run = r /\ ~last.o.matched) =>
            /\ pc[r] # "raised"
            /\ last.o.appended
            /\ Len(ai_responses) = last.hist_before + 1

\* C8: in non-debug mode, when the sanitized tool input does not decode,
\* run does not abort: the decode error is logged, the input stays the
\* un-decoded string, the tool is still dispatched with it, a turn is
\* appended to history and the loop continues.
C8_DecodeFailureGoesOn ==
    \A r \in Runs :
        (~debug /\ last.run = r /\ last.o.decode_failed) =>
            /\ pc[r] # "raised"
            /\ Len(errors_encountered) > last.errs_before
            /\ errors_encountered[last.errs_before + 1].exc = "JSONDecodeError"
            /\ last.o.value = StrVal(Sanitize(last.o.raw_input))
            /\ last.o.dispatched
            /\ last.o.appended
            /\ Len(ai_responses) = last.hist_before + 1
            /\ last.iteration < max_loops => pc[r] = "loop"

\* the positions of the final-answer tools of a list
FinalIndexes(list) == {i \in DOMAIN list : list[i].final}

\* C9: for a tool list without a final-answer tool, the catalogue after
\* construction holds exactly one final-answer tool, as its last entry,
\* after the tools of the caller in their order; a list that holds a
\* final-answer tool is left as it is.
C9_FinalToolAppended ==
    constructed =>
        IF FinalIndexes(caller_tools) = {}
        THEN /\ Len(tools) = Len(caller_tools) + 1
             /\ FinalIndexes(tools) = {Len(tools)}
             /\ SubSeq(tools, 1, Len(caller_tools)) = caller_tools
        ELSE tools = caller_tools

\* an Agent was constructed from two different tools, none the final-answer
\* tool
C9_Witness ==
    /\ constructed
    /\ Len(caller_tools) = 2
    /\ caller_tools[1] # caller_tools[2]
    /\ FinalIndexes(caller_tools) = {}
    /\ Len(tools) = 3

\* the turns run call r appended to the persistent history, in order
RECURSIVE TurnsOf(_, _)
TurnsOf(r, n) ==
    IF n = 0 THEN <<>>
    ELSE IF turn_owner[n] = r THEN Append(TurnsOf(r, n - 1), ai_responses[n])
    ELSE TurnsOf(r, n - 1)

\* the texts of pats occur in text from position from on, one after the
\* other in their order
RECURSIVE OccurInOrder(_, _, _)
OccurInOrder(text, pats, from) ==
    IF pats = <<>> THEN TRUE
    ELSE /\ \E i \in from..Len(text) : StartsAt(text, i, pats[1])
         /\ LET i == CHOOSE x \in from..Len(text) :
                        /\ StartsAt(text, x, pats[1])
                        /\ \A y \in from..(x - 1) : ~StartsAt(text, y, pats[1])
            IN  OccurInOrder(text, Tail(pats), i + Len(pats[1]))

\* C10: for two run calls on one Agent, one after the other, every turn the
\* first appended to the persistent history stands verbatim, in the same
\* order, in the previous-responses part of every prompt the second sends.
C10_HistoryInLaterPrompts ==
    \A r1 \in Runs, r2 \in Runs :
        (r1 < r2 /\ curr_prompt[r2].sent) =>
            OccurInOrder(curr_prompt[r2].previous_responses,
                         TurnsOf(r1, Len(ai_responses)), 1)

\* the second run call has sent a prompt after the first appended two turns
C10_Witness ==
    /\ MaxRuns >= 2
    /\ curr_prompt[2].sent
    /\ Len(TurnsOf(1, Len(ai_responses))) >= 2

\* the entries the most recent iteration added to the error log
NewErrors == SubSeq(errors_encountered, last.errs_before + 1, Len(errors_encountered))

\* the kinds of the entries an iteration owes the error log, in the order of
\* the code: parse failure, decode failure, failed tool call
OwedKinds(o) ==
    (IF ~o.matched THEN <<{"ValueError"}>> ELSE <<>>)
    \o (IF o.decode_failed THEN <<{"JSONDecodeError"}>> ELSE <<>>)
    \o (IF o.tool_failed THEN <<{"ValueError", "TypeError", "KeyError"}>> ELSE <<>>)

\* C11 (states): in non-debug mode the most recent iteration has added to
\* the error log one entry for each of its degraded errors, in their order,
\* and nothing else.
C11_DegradedErrorsLogged ==
    \A r \in Runs :
        (~debug /\ last.run = r) =>
            /\ Len(NewErrors) = Len(OwedKinds(last.o))
            /\ \A i \in DOMAIN NewErrors : NewErrors[i].exc \in OwedKinds(last.o)[i]
            /\ ~last.o.matched =>
                  NewErrors[1].msg = NotParsableMsg(last.o.generated)
            /\ (last.o.tool_failed /\ last.o.appended) =>
                  last.o.tool_result = StrVal(ErrorFromToolLit \o NewestError.msg)

\* C11 (steps): every step, the start of a run included, leaves the error
\* log as it was or with entries added at its end
C11_AppendOnlyStep ==
    /\ Len(errors_encountered') >= Len(errors_encountered)
    /\ SubSeq(errors_encountered', 1, Len(errors_encountered)) = errors_encountered

\* C11: across the run calls on one Agent every degraded error (parse
\* failure, decode failure, tool exception) adds an entry to the error log,
\* and the log is append-only: its content at an earlier point is a prefix
\* of its content at any later point, also across the start of a new run.
C11_ErrorLogAppendOnly == []C11_DegradedErrorsLogged /\ [][C11_AppendOnlyStep]_vars

\* in non-debug mode the first run logged a decode failure and the failed
\* call after it, and the second run added the error a tool body raised
C11_Witness ==
    /\ ~debug
    /\ MaxRuns >= 2
    /\ last.run = 2
    /\ last.errs_before >= 2
    /\ last.o.tool_failed
    /\ last.o.executed
    /\ errors_encountered[1].exc = "JSONDecodeError"
    /\ errors_encountered[2].exc = "TypeError"
    /\ Len(errors_encountered) = last.errs_before + 1

\* C13: for generated text of the form Thought, newline, Action: T, newline,
\* Action Input: I, newline, with I a one-line payload, the parser returns
\* exactly (T, I): the tool name and the raw input with all surrounding
\* whitespace, the trailing newline included, trimmed.
C13_ParserTrimsInput ==
    \A th \in ProbeThoughts, n \in ProbeNames, p \in ProbePayloads :
        (probe.fn = "parse" /\ probe.done /\ probe.text = ActionText(th, n, p)) =>
            /\ ~probe.out.raised
            /\ probe.out.tool = n
            /\ probe.out.tool_input = p

\* C14: for a raw tool input that is a JSON object text with control
\* characters put in at any positions outside its string values, the sanitizing
\* removes exactly those characters and keeps the others in order, and the
\* decoding then succeeds with the mapping of the text without them; no
\* error is logged.
C14_SanitizedInputDecodes ==
    (probe.fn = "decode" /\ probe.done) =>
        /\ probe.out.sanitized = probe.base
        /\ ~probe.out.d.raised
        /\ ~probe.out.d.failed
        /\ probe.out.d.errors = <<>>
        /\ probe.out.d.value.t = "dict"
        /\ probe.out.d.value = JsonLoads(probe.base).val

\* an input with the character 0x07 in front and another control character
\* further on has been decoded to the mapping of q to cats
C14_Witness ==
    /\ probe.fn = "decode"
    /\ probe.done
    /\ Len(probe.text) >= Len(probe.base) + 2
    /\ probe.text[1] = "^G"
    /\ probe.out.d.value.t = "dict"
    /\ probe.out.d.value.m =
          [k \in {<<"q">>} |-> StrVal(<<"c", "a", "t", "s">>)]

\* C15: in every state after construction, for any tool list the caller
\* passes, the names of the tools of the catalogue are pairwise distinct and
\* a final-answer tool is present, so that each name dispatches to exactly
\* one tool.
C15_NamesDistinct ==
    constructed =>
        /\ \A i \in DOMAIN tools, j \in DOMAIN tools :
              i # j => tools[i].name # tools[j].name
        /\ FinalIndexes(tools) # {}
        /\ \A i \in DOMAIN tools : ToolByNames(tools)[tools[i].name] = i

\* the task of run call r as the caller handed it over
Unwritten(r) == task[r] = [NoTask EXCEPT !.goal = task[r].goal]

\* C16 (states): a run that is in its loop, has raised or has used up its
\* budget has left the output fields of its task as they were; a completed
\* task belongs to a run that returned the value written to raw_output
C16_TaskState ==
    \A r \in Runs :
        /\ (pc[r] \in {"loop", "raised"} \/ (pc[r] = "returned" /\ result[r].kind = "none"))
              => Unwritten(r)
        /\ ~Unwritten(r) =>
              /\ pc[r] = "returned"
              /\ result[r].kind = "value"
              /\ task[r].completed
              /\ task[r].raw_output = result[r].value

\* C16 (steps): a step of a run changes its task only in an iteration that
\* selects the final-answer tool and ends the run, on a task not written
\* before, and leaves the goal as it was
C16_TaskStep ==
    \A r \in Runs :
        (pc[r] # "idle" /\ task'[r] # task[r]) =>
            /\ pc[r] = "loop"
            /\ pc'[r] = "returned"
            /\ Unwritten(r)
            /\ last'.run = r
            /\ last'.o.parsed
            /\ last'.o.tool = FinalAnswerName
            /\ task'[r].goal = task[r].goal
            /\ task'[r].completed

\* C16: during a run the output fields of the task (raw_output, completed)
\* are written at most once, and only in the iteration that selects the
\* final-answer tool; on every other exit of run (budget used up, unknown
\* tool, debug-mode failure) both are left unchanged, and the goal is never
\* modified.
C16_TaskWrittenOnce == []C16_TaskState /\ [][C16_TaskStep]_vars

\* the first run used up its budget after a tool call and left its task
\* unwritten, the second wrote its task in its final-answer iteration
C16_Witness ==
    /\ MaxRuns >= 2
    /\ pc[1] = "returned"
    /\ result[1].kind = "none"
    /\ tool_runs[1] >= 1
    /\ Unwritten(1)
    /\ pc[2] = "returned"
    /\ task[2].completed
    /\ task[2].raw_output = StrVal(<<"4", "2">>)
    /\ task[2].goal \in Goals

\* the working list of run call r, each turn trimmed as the persistent
\* history holds it
StrippedWorking(r) ==
    [i \in DOMAIN previous_responses[r] |-> Strip(previous_responses[r][i])]

\* the turns run call r itself appended
OwnTurns(r) == TurnsOf(r, Len(ai_responses))

\* the number of turns run call r copied from the history when it started
SeedLen(r) == Len(previous_responses[r]) - Len(OwnTurns(r))

\* C17: the working list of a run holds the turns the history had when the
\* run started, followed by the turns of the run itself; when the run calls
\* on one Agent are serialized, at the start of every iteration it holds
\* the same turns in the same order as the persistent history.  (When two
\* run calls interleave this is violated: the witness.)
C17_WorkingListIsHistory ==
    \A r \in Runs :
        pc[r] # "idle" =>
            /\ SeedLen(r) \in 0..Len(ai_responses)
            /\ StrippedWorking(r) = SubSeq(ai_responses, 1, SeedLen(r)) \o OwnTurns(r)
            /\ (serialized /\ pc[r] = "loop") => StrippedWorking(r) = ai_responses

\* two run calls have interleaved: the history holds a turn of one run
\* between two turns of the other, a run at the start of an iteration has a
\* working list that is not the history, and the last prompt sent left out
\* a turn the other run had appended before
C17_Witness ==
    /\ ~serialized
    /\ \E i \in DOMAIN turn_owner, j \in DOMAIN turn_owner, k \in DOMAIN turn_owner :
          i < j /\ j < k /\ turn_owner[i] = turn_owner[k] /\ turn_owner[j] # turn_owner[i]
    /\ \E r \in Runs :
          /\ pc[r] = "loop"
          /\ num_loops[r] >= 1
          /\ StrippedWorking(r) # ai_responses
    /\ \E i \in 1..last.hist_before :
          /\ turn_owner[i] # last.run
          /\ i > SeedLen(last.run)
          /\ ~OccurInOrder(curr_prompt[last.run].previous_responses, <<ai_responses[i]>>, 1)

NoMapping(o) ==
    /\ o.known
    /\ \/ o.decode_failed /\ ~debug
       \/ ~o.decode_failed /\ o.value.t # "dict"

\* C19 as stated: a tool body is executed in an iteration only if the
\* sanitized tool input decodes to a JSON object; if the decoding fails in
\* non-debug mode, or yields a value that is no mapping, the body is not
\* executed, the failure of the call is recorded in the error log (as a
\* second entry, after the decode error, when the decoding failed) and the
\* observation of that turn is an "Error from tool: ..." text.
C19_ObservationAlways ==
    \A r \in Runs :
        last.run = r =>
            /\ last.o.executed => (~last.o.decode_failed /\ last.o.value.t = "dict")
            /\ NoMapping(last.o) =>
                  /\ last.o.dispatched
                  /\ ~last.o.executed
                  /\ last.o.tool_failed
                  /\ NewestError =
                        [exc |-> "TypeError", msg |-> NotAMappingLit \o TypeName(last.o.value)]
                  /\ Len(NewErrors) = (IF last.o.decode_failed THEN 2 ELSE 1)
                  /\ last.o.decode_failed => NewErrors[1].exc = "JSONDecodeError"
                  /\ Len(ai_responses) = last.hist_before + 1
                  /\ NewestResponse =
                        Strip(Turn(last.o.generated,
                                   StrVal(ErrorFromToolLit \o NewestError.msg)))

\* C19 (amended): a tool body is executed in an iteration only if the
\* sanitized tool input decodes to a JSON object.  If the decoding fails in
\* non-debug mode or yields a value that is no mapping, the body is not
\* executed and the failure of the call is recorded in the error log (as a
\* second entry, after the decode error, when the decoding failed); in
\* non-debug mode the observation of that turn is an "Error from tool: ..."
\* text, in debug mode the failure is raised and no turn is appended.
C19_BodyNeedsMapping ==
    \A r \in Runs :
        last.run = r =>
            /\ last.o.executed => (~last.o.decode_failed /\ last.o.value.t = "dict")
            /\ NoMapping(last.o) =>
                  /\ last.o.dispatched
                  /\ ~last.o.executed
                  /\ last.o.tool_failed
                  /\ NewestError =
                        [exc |-> "TypeError", msg |-> NotAMappingLit \o TypeName(last.o.value)]
                  /\ Len(NewErrors) = (IF last.o.decode_failed THEN 2 ELSE 1)
                  /\ last.o.decode_failed => NewErrors[1].exc = "JSONDecodeError"
                  /\ IF debug
                     THEN /\ pc[r] = "raised"
                          /\ Len(ai_responses) = last.hist_before
                     ELSE /\ Len(ai_responses) = last.hist_before + 1
                          /\ NewestResponse =
                                Strip(Turn(last.o.generated,
                                           StrVal(ErrorFromToolLit \o NewestError.msg)))

\* in non-debug mode a tool was called with an input that did not decode and,
\* an iteration later in the same run, with one that decoded to a number;
\* no tool body ran
C19_Witness ==
    \E r \in Runs :
        /\ ~debug
        /\ last.run = r
        /\ last.iteration >= 2
        /\ ~last.o.decode_failed
        /\ last.o.value = [t |-> "int", n |-> 42]
        /\ last.o.tool_failed
        /\ tool_runs[r] = 0
        /\ Len(errors_encountered) >= 3
        /\ errors_encountered[1].exc = "JSONDecodeError"
        /\ errors_encountered[2].exc = "TypeError"

\* C20 (states): a run that has raised has left in the persistent history
\* the history it started from followed by one turn for each iteration it
\* completed, and the next run on the Agent has started from that history
C20_RaisedRunState ==
    \A r \in Runs :
        pc[r] = "raised" =>
            /\ Len(OwnTurns(r)) = num_loops[r] - 1
            /\ Len(previous_responses[r]) = SeedLen(r) + num_loops[r] - 1
            /\ Len(ai_responses) >= Len(previous_responses[r])
            /\ SubSeq(ai_responses, 1, Len(previous_responses[r])) = StrippedWorking(r)
            /\ \A i \in (SeedLen(r) + 1)..Len(previous_responses[r]) : turn_owner[i] = r
            /\ (r + 1 \in Runs /\ pc[r + 1] # "idle") =>
                  /\ SeedLen(r + 1) = Len(previous_responses[r])
                  /\ SubSeq(StrippedWorking(r + 1), 1, SeedLen(r + 1)) = StrippedWorking(r)

\* C20 (steps): the step in which a run raises leaves the history as it is
\* and the error log with its entries, and so does every step after it
C20_RaisedRunStep ==
    \A r \in Runs :
        (pc'[r] = "raised") =>
            /\ Len(ai_responses') >= Len(ai_responses)
            /\ SubSeq(ai_responses', 1, Len(ai_responses)) = ai_responses
            /\ pc[r] = "loop" => ai_responses' = ai_responses
            /\ Len(errors_encountered') >= Len(errors_encountered)
            /\ SubSeq(errors_encountered', 1, Len(errors_encountered)) = errors_encountered

\* C20: a run that ends with a raised error (unknown tool, or a debug-mode
\* failure) is not rolled back: the turns of its earlier iterations stay in
\* the persistent history and the errors logged stay in the error log; the
\* history after the run is the history before it extended by exactly one
\* turn per completed iteration, and a later run on the Agent starts from
\* that extended history.
C20_RaisedRunNotRolledBack == []C20_RaisedRunState /\ [][C20_RaisedRunStep]_vars

\* the first run completed an iteration that logged two errors, named an
\* unknown tool in its second iteration and raised; the second run has sent
\* a prompt that starts from the turn of the first
C20_Witness ==
    /\ MaxRuns >= 2
    /\ pc[1] = "raised"
    /\ result[1].exc.msg = UnknownToolLit \o <<"X">>
    /\ num_loops[1] = 2
    /\ Len(OwnTurns(1)) = 1
    /\ Len(errors_encountered) >= 2
    /\ curr_prompt[2].sent
    /\ SeedLen(2) = 1
    /\ OccurInOrder(curr_prompt[2].previous_responses, OwnTurns(1), 1)
\* C12: two Agents that differ only in verbose, given the same answers of
\* the model and the same behaviour of the tools, make the same calls of the
\* model and of the tools, return the same value or raise the same error,
\* and leave the same task fields, the same history and the same error log.
C12_VerboseNoEffect ==
    twin.on =>
        /\ twin.llm_calls = llm_calls
        /\ twin.tool_runs = tool_runs
        /\ twin.curr_prompt = curr_prompt
        /\ twin.pc = pc
        /\ twin.result = result
        /\ twin.task = task
        /\ twin.ai_responses = ai_responses
        /\ twin.errors_encountered = errors_encountered

====
